---- MODULE Spec2Model ----
(***************************************************************************)
(* Model of the request-processing core of echo-server:                    *)
(*   src/src/api/request.rs  Request::from_json and the handlers           *)
(*   src/src/pass.rs         Password::hash and Password::is_valid         *)
(*                                                                         *)
(* One connection is modelled: it owns one Login (the session), receives   *)
(* envelopes, parses each with from_json, hands the Request to the handler *)
(* of its (operation, target) and returns the outcome to the peer.         *)
(* A handler is one action: its storage calls are awaited one after the    *)
(* other and the session is owned by the connection.                       *)
(***************************************************************************)
EXTENDS Integers, Sequences, FiniteSets, TLC

\* Bound: the number of users, and of messages, in one envelope.
MaxItems == 2

\* pass.rs:12  vec![0u8; 32]
SaltLen == 32

(***************************************************************************)
(* Option<T>                                                               *)
(***************************************************************************)
None == [some |-> FALSE]
Some(v) == [some |-> TRUE, val |-> v]

(***************************************************************************)
(* Outcomes of a fallible call: Ok(value), Err(kind, message), or a panic  *)
(* (an index out of bounds, an unwrap of an Err), which unwinds the task.  *)
(* InvalidInput and PermissionDenied are the std::io::ErrorKind values the *)
(* code builds; Json, Decode, Storage, Utf8 and Random are the errors of   *)
(* serde_json, the entity decoders, sqlx, from_utf8 and getrandom that `?` *)
(* propagates.                                                             *)
(***************************************************************************)
Ok(v) == [kind |-> "Ok", val |-> v]
Err(e, m) == [kind |-> "Err", error |-> e, msg |-> m]
Panic(m) == [kind |-> "Panic", msg |-> m]
NoResult == [kind |-> "None"]

(***************************************************************************)
(* Strings that the code takes apart are sequences of characters.          *)
(***************************************************************************)
AsciiWhitespace == {" ", "\t", "\n", "\r", "\f"}

\* str::split_ascii_whitespace: the maximal runs of non-whitespace characters.
RECURSIVE SplitFrom(_, _, _)
SplitFrom(s, i, cur) ==
    IF i > Len(s)
    THEN (IF cur = <<>> THEN <<>> ELSE <<cur>>)
    ELSE IF s[i] \in AsciiWhitespace
         THEN (IF cur = <<>> THEN <<>> ELSE <<cur>>) \o SplitFrom(s, i + 1, <<>>)
         ELSE SplitFrom(s, i + 1, Append(cur, s[i]))

split_ascii_whitespace(s) == SplitFrom(s, 1, <<>>)

\* Request::split_function: tokens [0] and [1]; indexing past the end panics.
split_function(function) ==
    LET split_func == split_ascii_whitespace(function) IN
    IF Len(split_func) < 2
    THEN Panic("index out of bounds")
    ELSE Ok(<<split_func[1], split_func[2]>>)

VERIFY == <<"V", "E", "R", "I", "F", "Y">>
CREATE == <<"C", "R", "E", "A", "T", "E">>
READ == <<"R", "E", "A", "D">>
UPDATE == <<"U", "P", "D", "A", "T", "E">>
DELETE == <<"D", "E", "L", "E", "T", "E">>
CONVERSATIONS == <<"C", "O", "N", "V", "E", "R", "S", "A", "T", "I", "O", "N", "S">>
MESSAGES == <<"M", "E", "S", "S", "A", "G", "E", "S">>
USERS == <<"U", "S", "E", "R", "S">>

\* enum Operation, enum Target
Operation == {"Create", "Read", "Update", "Delete", "Verify"}
Target == {"Conversations", "Messages", "Users"}

\* from_json, the match on the operation token
MatchOperation(tok) ==
    IF tok = VERIFY THEN Ok("Verify")
    ELSE IF tok = CREATE THEN Ok("Create")
    ELSE IF tok = READ THEN Ok("Read")
    ELSE IF tok = UPDATE THEN Ok("Update")
    ELSE IF tok = DELETE THEN Ok("Delete")
    ELSE Err("InvalidInput", "Unknown request")

\* Mutant of MatchTarget: the target token is matched in either case.
MatchTarget_AnyCase(tok) ==
    IF tok = CONVERSATIONS THEN Ok("Conversations")
    ELSE IF tok = MESSAGES THEN Ok("Messages")
    ELSE IF tok = USERS \/ tok = <<"u", "s", "e", "r", "s">> THEN Ok("Users")
    ELSE Err("InvalidInput", "Unknown target")

\* from_json, the match on the target token
MatchTarget(tok) ==
    IF tok = CONVERSATIONS THEN Ok("Conversations")
    ELSE IF tok = MESSAGES THEN Ok("Messages")
    ELSE IF tok = USERS THEN Ok("Users")
    ELSE Err("InvalidInput", "Unknown target")

(***************************************************************************)
(* JSON values, as far as from_json looks at them.  A value is null (also  *)
(* what indexing a missing key yields), a string, a number or an array.    *)
(* An array item is either an object the entity decoder accepts (carrying  *)
(* the entity it decodes to) or one the decoder rejects.                   *)
(***************************************************************************)
JNull == [t |-> "null"]
JNumber == [t |-> "number"]
JString(s) == [t |-> "string", s |-> s]
JArray(items) == [t |-> "array", items |-> items]
Good(entity) == [ok |-> TRUE, entity |-> entity]
Bad == [ok |-> FALSE]

\* Value::as_str
as_str(v) == IF v.t = "string" THEN Some(v.s) ELSE None

\* Value::as_array
as_array(v) == IF v.t = "array" THEN Some(v.items) ELSE None

\* api::User::from_json / api::Message::from_json / api::Conversation::from_json
EntityFromJson(item) ==
    IF item.ok THEN Ok(item.entity) ELSE Err("Decode", "Invalid entity")

\* The loop `for item in d.iter() { let x = T::from_json(item)?; v.push(x) }`
RECURSIVE DecodeItems(_, _, _)
DecodeItems(d, i, acc) ==
    IF i > Len(d) THEN Ok(acc)
    ELSE LET r == EntityFromJson(d[i]) IN
         IF r.kind = "Ok" THEN DecodeItems(d, i + 1, Append(acc, r.val)) ELSE r

\* match data["users"].as_array() { Some(d) => Some(decoded), None => None }
DecodeList(v) ==
    LET a == as_array(v) IN
    IF a.some
    THEN LET r == DecodeItems(a.val, 1, <<>>) IN
         IF r.kind = "Ok" THEN Ok(Some(r.val)) ELSE r
    ELSE Ok(None)

\* An envelope is text that is not JSON, or a JSON value with these keys.
NotJson == [json |-> FALSE]
Envelope(f, u, m, c) ==
    [json |-> TRUE, function |-> f, users |-> u, messages |-> m, conversations |-> c]

\* Request::from_json
from_json(data) ==
    IF ~data.json THEN Err("Json", "serde_json::from_str failed")
    ELSE LET f == as_str(data.function) IN
    IF ~f.some THEN Err("InvalidInput", "Invalid request function")
    ELSE LET sp == split_function(f.val) IN
    IF sp.kind # "Ok" THEN sp
    ELSE LET operation == MatchOperation(sp.val[1]) IN
    IF operation.kind # "Ok" THEN operation
    ELSE LET target == MatchTarget(sp.val[2]) IN
    IF target.kind # "Ok" THEN target
    ELSE LET users == DecodeList(data.users) IN
    IF users.kind # "Ok" THEN users
    ELSE LET messages == DecodeList(data.messages) IN
    IF messages.kind # "Ok" THEN messages
    ELSE LET conversations == DecodeList(data.conversations) IN
    IF conversations.kind # "Ok" THEN conversations
    ELSE Ok([operation |-> operation.val,
             target |-> target.val,
             users |-> users.val,
             messages |-> messages.val,
             conversations |-> conversations.val])

(***************************************************************************)
(* Credential Hasher (pass.rs).  Bytes are numbers 0..255.                 *)
(***************************************************************************)
IsCont(b) == b >= 128 /\ b <= 191

\* The validity check of String::from_utf8 / std::str::from_utf8.
RECURSIVE IsUtf8(_)
IsUtf8(b) ==
    IF b = <<>> THEN TRUE
    ELSE LET c == b[1]
             n == Len(b)
         IN IF c < 128 THEN IsUtf8(Tail(b))
            ELSE IF c >= 194 /\ c <= 223
                 THEN n >= 2 /\ IsCont(b[2]) /\ IsUtf8(SubSeq(b, 3, n))
            ELSE IF c >= 224 /\ c <= 239
                 THEN /\ n >= 3
                      /\ IsCont(b[2])
                      /\ (c = 224 => b[2] >= 160)
                      /\ (c = 237 => b[2] <= 159)
                      /\ IsCont(b[3])
                      /\ IsUtf8(SubSeq(b, 4, n))
            ELSE IF c >= 240 /\ c <= 244
                 THEN /\ n >= 4
                      /\ IsCont(b[2])
                      /\ (c = 240 => b[2] >= 144)
                      /\ (c = 244 => b[2] <= 143)
                      /\ IsCont(b[3])
                      /\ IsCont(b[4])
                      /\ IsUtf8(SubSeq(b, 5, n))
            ELSE FALSE

\* String::from_utf8(bytes): the String holds the very bytes it was given.
from_utf8(bytes) ==
    IF IsUtf8(bytes) THEN Ok(bytes) ELSE Err("Utf8", "invalid utf-8 sequence")

\* argon2rs::argon2i_simple, a black box: deterministic in (password, salt)
\* and without collisions.
argon2i_simple(password, salt) == <<password, salt>>

\* What getrandom::getrandom can do to the 32-byte buffer: fail, or fill it.
\* The fillings are: 32 ASCII bytes, and 32 bytes of which the first is FF,
\* which no UTF-8 text contains.
RandomBytes ==
    { [i \in 1..SaltLen |-> 65],
      [i \in 1..SaltLen |-> IF i = 1 THEN 255 ELSE 65] }
GetRandom == {Err("Random", "getrandom failed")} \cup {Ok(b) : b \in RandomBytes}

\* Password::hash; rnd is the outcome of getrandom.
PasswordHash(password, rnd) ==
    IF rnd.kind # "Ok" THEN rnd
    ELSE LET salt == from_utf8(rnd.val) IN
         IF salt.kind # "Ok" THEN salt
         ELSE Ok([hash |-> argon2i_simple(password, salt.val), salt |-> salt.val])

\* Mutant of is_valid: the candidate is hashed without the stored salt.
is_valid_IgnoresSalt(self, password) ==
    LET salt == from_utf8(self.salt) IN
    IF salt.kind # "Ok" THEN Panic("unwrap on an Err value")
    ELSE Ok(argon2i_simple(password, <<>>) = self.hash)

\* Mutant of is_valid: the stored hash is compared with itself.
is_valid_ComparesStored(self, password) ==
    LET salt == from_utf8(self.salt) IN
    IF salt.kind # "Ok" THEN Panic("unwrap on an Err value")
    ELSE Ok(self.hash = self.hash)

\* Password::is_valid; the unwrap panics on a salt that is not UTF-8.
is_valid(self, password) ==
    LET salt == from_utf8(self.salt) IN
    IF salt.kind # "Ok" THEN Panic("unwrap on an Err value")
    ELSE Ok(argon2i_simple(password, salt.val) = self.hash)

(***************************************************************************)
(* Session                                                                 *)
(***************************************************************************)
\* Login as the connection creates it.
NewLogin == [email |-> "", is_authenticated |-> FALSE]

\* Login::authenticate
authenticate(login, email) == [email |-> email, is_authenticated |-> TRUE]

(***************************************************************************)
(* Storage.  The users table maps an email to its stored credential; the   *)
(* other tables are not read back by any decision of the core, so a query  *)
(* on them simply succeeds or fails.  `fail` is the number of the storage  *)
(* call of the invocation that the backend fails (0: none does); the calls *)
(* of an invocation are logged in the order they are issued.               *)
(***************************************************************************)
Emails == {"alice@example.com", "bob@example.com"}
NoUsers == [e \in Emails |-> None]

BackendFails(calls, fail) == Len(calls) + 1 = fail
\* outcome: "Ok", or the storage error ("Database": the backend failed;
\* "RowNotFound": fetch_one found no row; "UniqueViolation": the email exists).
Issued(calls, call, outcome) == Append(calls, [call |-> call, outcome |-> outcome])

\* Response{status: 1, conversations: None, messages: None, users: None}
Success == [status |-> 1, conversations |-> None, messages |-> None, users |-> None]

Outcome(result, login, tbl, calls) ==
    [result |-> result, login |-> login, tbl |-> tbl, calls |-> calls]

NotAuthenticated == Err("PermissionDenied", "Not authenticated")
Missing(what) == Err("InvalidInput", what)
StorageError(m) == Err("Storage", m)

(***************************************************************************)
(* Handlers (request.rs).  Each yields the result, the session and users   *)
(* table it leaves, and the storage calls it issued.                       *)
(***************************************************************************)
\* Mutant of verify_users: an unknown email is reported as a wrong password.
verify_users_CollapseNotFound(self, login, tbl, fail) ==
    IF ~self.users.some
    THEN Outcome(Missing("Missing 'users' list"), login, tbl, <<>>)
    ELSE LET users == self.users.val IN
    IF Len(users) = 0
    THEN Outcome(Panic("index out of bounds"), login, tbl, <<>>)
    ELSE LET user == users[1] IN
    IF ~user.email.some
    THEN Outcome(Missing("Missing 'email' field for 'user'"), login, tbl, <<>>)
    ELSE IF ~user.password.some
    THEN Outcome(Missing("Missing 'password' field for 'user'"), login, tbl, <<>>)
    ELSE LET email == user.email.val
             remote_pass == user.password.val
             call == [op |-> "verify-user", email |-> email]
         IN
    IF BackendFails(<<>>, fail)
    THEN Outcome(StorageError("Database"), login, tbl, Issued(<<>>, call, "Database"))
    ELSE IF ~tbl[email].some
    THEN Outcome(Err("PermissionDenied", "Invalid password"), login, tbl,
                 Issued(<<>>, call, "RowNotFound"))
    ELSE LET local_pass == tbl[email].val
             valid == is_valid(local_pass, remote_pass)
         IN
    IF valid.kind # "Ok"
    THEN Outcome(valid, login, tbl, Issued(<<>>, call, "Ok"))
    ELSE IF valid.val
    THEN Outcome(Ok(Success), authenticate(login, email), tbl, Issued(<<>>, call, "Ok"))
    ELSE Outcome(Err("PermissionDenied", "Invalid password"), login, tbl,
                 Issued(<<>>, call, "Ok"))

\* Request::verify_users
verify_users(self, login, tbl, fail) ==
    IF ~self.users.some
    THEN Outcome(Missing("Missing 'users' list"), login, tbl, <<>>)
    ELSE LET users == self.users.val IN
    IF Len(users) = 0
    THEN Outcome(Panic("index out of bounds"), login, tbl, <<>>)
    ELSE LET user == users[1] IN
    IF ~user.email.some
    THEN Outcome(Missing("Missing 'email' field for 'user'"), login, tbl, <<>>)
    ELSE IF ~user.password.some
    THEN Outcome(Missing("Missing 'password' field for 'user'"), login, tbl, <<>>)
    ELSE LET email == user.email.val
             remote_pass == user.password.val
             call == [op |-> "verify-user", email |-> email]
         IN
    IF BackendFails(<<>>, fail)
    THEN Outcome(StorageError("Database"), login, tbl, Issued(<<>>, call, "Database"))
    ELSE IF ~tbl[email].some
    THEN Outcome(StorageError("RowNotFound"), login, tbl, Issued(<<>>, call, "RowNotFound"))
    ELSE LET local_pass == tbl[email].val
             valid == is_valid(local_pass, remote_pass)
         IN
    IF valid.kind # "Ok"
    THEN Outcome(valid, login, tbl, Issued(<<>>, call, "Ok"))
    ELSE IF valid.val
    THEN Outcome(Ok(Success), authenticate(login, email), tbl, Issued(<<>>, call, "Ok"))
    ELSE Outcome(Err("PermissionDenied", "Invalid password"), login, tbl,
                 Issued(<<>>, call, "Ok"))

\* Mutant of CreateUsersLoop: a failed insert is passed over and the loop
\* goes on with the next user.
RECURSIVE CreateUsersLoop_GoesOn(_, _, _, _, _, _, _)
CreateUsersLoop_GoesOn(users, i, login, tbl, calls, fail, rnd) ==
    IF i > Len(users) THEN Outcome(Ok(Success), login, tbl, calls)
    ELSE LET user == users[i] IN
    IF ~user.email.some
    THEN Outcome(Missing("Missing 'email' field for 'user'"), login, tbl, calls)
    ELSE IF ~user.password.some
    THEN Outcome(Missing("Missing 'password' field for 'user'"), login, tbl, calls)
    ELSE IF ~user.public_key.some
    THEN Outcome(Missing("Missing 'public_key' field for 'user'"), login, tbl, calls)
    ELSE LET password == PasswordHash(user.password.val, rnd[i]) IN
    IF password.kind # "Ok"
    THEN Outcome(password, login, tbl, calls)
    ELSE LET email == user.email.val
             call == [op |-> "create-user",
                      email |-> email,
                      public_key |-> user.public_key.val,
                      hash |-> password.val.hash,
                      salt |-> password.val.salt]
         IN
    IF BackendFails(calls, fail)
    THEN CreateUsersLoop_GoesOn(users, i + 1, login, tbl,
                                Issued(calls, call, "Database"), fail, rnd)
    ELSE IF tbl[email].some
    THEN Outcome(StorageError("UniqueViolation"), login, tbl, Issued(calls, call, "UniqueViolation"))
    ELSE CreateUsersLoop_GoesOn(users, i + 1, login,
                                [tbl EXCEPT ![email] = Some(password.val)],
                                Issued(calls, call, "Ok"), fail, rnd)

\* Request::create_users, the loop from element i on; rnd[i] is what
\* getrandom does in the hash of element i.
RECURSIVE CreateUsersLoop(_, _, _, _, _, _, _)
CreateUsersLoop(users, i, login, tbl, calls, fail, rnd) ==
    IF i > Len(users) THEN Outcome(Ok(Success), login, tbl, calls)
    ELSE LET user == users[i] IN
    IF ~user.email.some
    THEN Outcome(Missing("Missing 'email' field for 'user'"), login, tbl, calls)
    ELSE IF ~user.password.some
    THEN Outcome(Missing("Missing 'password' field for 'user'"), login, tbl, calls)
    ELSE IF ~user.public_key.some
    THEN Outcome(Missing("Missing 'public_key' field for 'user'"), login, tbl, calls)
    ELSE LET password == PasswordHash(user.password.val, rnd[i]) IN
    IF password.kind # "Ok"
    THEN Outcome(password, login, tbl, calls)
    ELSE LET email == user.email.val
             call == [op |-> "create-user",
                      email |-> email,
                      public_key |-> user.public_key.val,
                      hash |-> password.val.hash,
                      salt |-> password.val.salt]
         IN
    IF BackendFails(calls, fail)
    THEN Outcome(StorageError("Database"), login, tbl, Issued(calls, call, "Database"))
    ELSE IF tbl[email].some
    THEN Outcome(StorageError("UniqueViolation"), login, tbl, Issued(calls, call, "UniqueViolation"))
    ELSE CreateUsersLoop(users, i + 1, login,
                         [tbl EXCEPT ![email] = Some(password.val)],
                         Issued(calls, call, "Ok"), fail, rnd)

\* Mutant of create_users: a successful sign-up logs its first user in.
create_users_LogsIn(self, login, tbl, fail, rnd) ==
    IF ~self.users.some
    THEN Outcome(Missing("Missing 'users' list"), login, tbl, <<>>)
    ELSE LET o == CreateUsersLoop(self.users.val, 1, login, tbl, <<>>, fail, rnd) IN
         IF o.result.kind = "Ok" /\ Len(self.users.val) > 0
         THEN [o EXCEPT !.login = authenticate(login, self.users.val[1].email.val)]
         ELSE o

\* Request::create_users
create_users(self, login, tbl, fail, rnd) ==
    IF ~self.users.some
    THEN Outcome(Missing("Missing 'users' list"), login, tbl, <<>>)
    ELSE CreateUsersLoop(self.users.val, 1, login, tbl, <<>>, fail, rnd)

\* Mutant of AddMembersLoop: the users are added last first.
RECURSIVE AddMembersLoop_LastFirst(_, _, _, _, _, _, _)
AddMembersLoop_LastFirst(users, i, name, login, tbl, calls, fail) ==
    IF i > Len(users) THEN Outcome(Ok(Success), login, tbl, calls)
    ELSE LET user == users[Len(users) + 1 - i] IN
    IF ~user.email.some
    THEN Outcome(Missing("Missing 'email' field for 'user'"), login, tbl, calls)
    ELSE LET call == [op |-> "create-conversation-2",
                      email |-> user.email.val,
                      name |-> name]
         IN
    IF BackendFails(calls, fail)
    THEN Outcome(StorageError("Database"), login, tbl, Issued(calls, call, "Database"))
    ELSE AddMembersLoop_LastFirst(users, i + 1, name, login, tbl,
                                  Issued(calls, call, "Ok"), fail)

\* Request::create_conversations, the loop `for user in users.clone()`.
RECURSIVE AddMembersLoop(_, _, _, _, _, _, _)
AddMembersLoop(users, i, name, login, tbl, calls, fail) ==
    IF i > Len(users) THEN Outcome(Ok(Success), login, tbl, calls)
    ELSE LET user == users[i] IN
    IF ~user.email.some
    THEN Outcome(Missing("Missing 'email' field for 'user'"), login, tbl, calls)
    ELSE LET call == [op |-> "create-conversation-2",
                      email |-> user.email.val,
                      name |-> name]
         IN
    IF BackendFails(calls, fail)
    THEN Outcome(StorageError("Database"), login, tbl, Issued(calls, call, "Database"))
    ELSE AddMembersLoop(users, i + 1, name, login, tbl, Issued(calls, call, "Ok"), fail)

\* Mutant of create_conversations: the emails of all users are checked
\* before the first write.
create_conversations_ChecksEmailsFirst(self, login, tbl, fail) ==
    IF login.is_authenticated = FALSE
    THEN Outcome(NotAuthenticated, login, tbl, <<>>)
    ELSE IF ~self.users.some
    THEN Outcome(Missing("Missing 'users' list"), login, tbl, <<>>)
    ELSE IF ~self.conversations.some
    THEN Outcome(Missing("Missing 'conversations' list"), login, tbl, <<>>)
    ELSE LET users == self.users.val
             conversations == self.conversations.val
         IN
    IF Len(conversations) = 0
    THEN Outcome(Panic("index out of bounds"), login, tbl, <<>>)
    ELSE LET conversation == conversations[1] IN
    IF ~conversation.name.some
    THEN Outcome(Missing("Missing 'name' field for 'conversation'"), login, tbl, <<>>)
    ELSE LET name == from_utf8(conversation.name.val) IN
    IF name.kind # "Ok"
    THEN Outcome(name, login, tbl, <<>>)
    ELSE IF \E i \in 1..Len(users) : ~users[i].email.some
    THEN Outcome(Missing("Missing 'email' field for 'user'"), login, tbl, <<>>)
    ELSE LET call1 == [op |-> "create-conversation-1", name |-> name.val]
             call2 == [op |-> "create-conversation-2",
                       email |-> login.email,
                       name |-> name.val]
         IN
    IF BackendFails(<<>>, fail)
    THEN Outcome(StorageError("Database"), login, tbl, Issued(<<>>, call1, "Database"))
    ELSE LET calls1 == Issued(<<>>, call1, "Ok") IN
    IF BackendFails(calls1, fail)
    THEN Outcome(StorageError("Database"), login, tbl, Issued(calls1, call2, "Database"))
    ELSE AddMembersLoop(users, 1, name.val, login, tbl, Issued(calls1, call2, "Ok"), fail)

\* Request::create_conversations
create_conversations(self, login, tbl, fail) ==
    IF login.is_authenticated = FALSE
    THEN Outcome(NotAuthenticated, login, tbl, <<>>)
    ELSE IF ~self.users.some
    THEN Outcome(Missing("Missing 'users' list"), login, tbl, <<>>)
    ELSE IF ~self.conversations.some
    THEN Outcome(Missing("Missing 'conversations' list"), login, tbl, <<>>)
    ELSE LET users == self.users.val
             conversations == self.conversations.val
         IN
    IF Len(conversations) = 0
    THEN Outcome(Panic("index out of bounds"), login, tbl, <<>>)
    ELSE LET conversation == conversations[1] IN
    IF ~conversation.name.some
    THEN Outcome(Missing("Missing 'name' field for 'conversation'"), login, tbl, <<>>)
    ELSE LET name == from_utf8(conversation.name.val) IN
    IF name.kind # "Ok"
    THEN Outcome(name, login, tbl, <<>>)
    ELSE LET call1 == [op |-> "create-conversation-1", name |-> name.val]
             call2 == [op |-> "create-conversation-2",
                       email |-> login.email,
                       name |-> name.val]
         IN
    IF BackendFails(<<>>, fail)
    THEN Outcome(StorageError("Database"), login, tbl, Issued(<<>>, call1, "Database"))
    ELSE LET calls1 == Issued(<<>>, call1, "Ok") IN
    IF BackendFails(calls1, fail)
    THEN Outcome(StorageError("Database"), login, tbl, Issued(calls1, call2, "Database"))
    ELSE AddMembersLoop(users, 1, name.val, login, tbl, Issued(calls1, call2, "Ok"), fail)

\* Mutant of CreateMessagesLoop: the id of the conversation is not asked for.
RECURSIVE CreateMessagesLoop_NoIdCheck(_, _, _, _, _, _, _)
CreateMessagesLoop_NoIdCheck(messages, i, conversation, login, tbl, calls, fail) ==
    IF i > Len(messages) THEN Outcome(Ok(Success), login, tbl, calls)
    ELSE LET message == messages[i] IN
    IF ~message.data.some
    THEN Outcome(Missing("Missing 'data' field for 'message'"), login, tbl, calls)
    ELSE IF ~message.media_type.some
    THEN Outcome(Missing("Missing 'media_type' field for 'message'"), login, tbl, calls)
    ELSE IF ~message.timestamp.some
    THEN Outcome(Missing("Missing 'timestamp' field for 'message'"), login, tbl, calls)
    ELSE IF ~message.signature.some
    THEN Outcome(Missing("Missing 'signature' field for 'message'"), login, tbl, calls)
    ELSE LET call == [op |-> "create-message",
                      email |-> login.email,
                      data |-> message.data.val,
                      media_type |-> message.media_type.val,
                      timestamp |-> message.timestamp.val,
                      signature |-> message.signature.val]
         IN
    IF BackendFails(calls, fail)
    THEN Outcome(StorageError("Database"), login, tbl, Issued(calls, call, "Database"))
    ELSE CreateMessagesLoop_NoIdCheck(messages, i + 1, conversation, login, tbl,
                            Issued(calls, call, "Ok"), fail)

\* Request::create_messages, the loop `for message in messages`.
RECURSIVE CreateMessagesLoop(_, _, _, _, _, _, _)
CreateMessagesLoop(messages, i, conversation, login, tbl, calls, fail) ==
    IF i > Len(messages) THEN Outcome(Ok(Success), login, tbl, calls)
    ELSE LET message == messages[i] IN
    IF ~message.data.some
    THEN Outcome(Missing("Missing 'data' field for 'message'"), login, tbl, calls)
    ELSE IF ~message.media_type.some
    THEN Outcome(Missing("Missing 'media_type' field for 'message'"), login, tbl, calls)
    ELSE IF ~message.timestamp.some
    THEN Outcome(Missing("Missing 'timestamp' field for 'message'"), login, tbl, calls)
    ELSE IF ~message.signature.some
    THEN Outcome(Missing("Missing 'signature' field for 'message'"), login, tbl, calls)
    ELSE IF ~conversation.id.some
    THEN Outcome(Missing("Missing 'id' field for 'message'"), login, tbl, calls)
    ELSE LET call == [op |-> "create-message",
                      email |-> login.email,
                      data |-> message.data.val,
                      media_type |-> message.media_type.val,
                      timestamp |-> message.timestamp.val,
                      signature |-> message.signature.val]
         IN
    IF BackendFails(calls, fail)
    THEN Outcome(StorageError("Database"), login, tbl, Issued(calls, call, "Database"))
    ELSE CreateMessagesLoop(messages, i + 1, conversation, login, tbl,
                            Issued(calls, call, "Ok"), fail)

\* Mutant of create_messages: the lists are validated before the gate.
create_messages_ListsBeforeGate(self, login, tbl, fail) ==
    IF ~self.messages.some
    THEN Outcome(Missing("Missing 'messages' list"), login, tbl, <<>>)
    ELSE IF ~self.conversations.some
    THEN Outcome(Missing("Missing 'conversations' list"), login, tbl, <<>>)
    ELSE IF login.is_authenticated = FALSE
    THEN Outcome(NotAuthenticated, login, tbl, <<>>)
    ELSE LET conversations == self.conversations.val IN
    IF Len(conversations) = 0
    THEN Outcome(Panic("index out of bounds"), login, tbl, <<>>)
    ELSE CreateMessagesLoop(self.messages.val, 1, conversations[1], login, tbl, <<>>, fail)

\* Mutant of create_messages: the rows are attributed to the email of the
\* first user of the payload, when there is one.
create_messages_SenderFromPayload(self, login, tbl, fail) ==
    IF login.is_authenticated = FALSE
    THEN Outcome(NotAuthenticated, login, tbl, <<>>)
    ELSE IF ~self.messages.some
    THEN Outcome(Missing("Missing 'messages' list"), login, tbl, <<>>)
    ELSE IF ~self.conversations.some
    THEN Outcome(Missing("Missing 'conversations' list"), login, tbl, <<>>)
    ELSE LET conversations == self.conversations.val
             sender == IF self.users.some /\ Len(self.users.val) > 0
                          /\ self.users.val[1].email.some
                       THEN [login EXCEPT !.email = self.users.val[1].email.val]
                       ELSE login
         IN
    IF Len(conversations) = 0
    THEN Outcome(Panic("index out of bounds"), login, tbl, <<>>)
    ELSE [CreateMessagesLoop(self.messages.val, 1, conversations[1], sender, tbl, <<>>, fail)
            EXCEPT !.login = login]

\* Request::create_messages
create_messages(self, login, tbl, fail) ==
    IF login.is_authenticated = FALSE
    THEN Outcome(NotAuthenticated, login, tbl, <<>>)
    ELSE IF ~self.messages.some
    THEN Outcome(Missing("Missing 'messages' list"), login, tbl, <<>>)
    ELSE IF ~self.conversations.some
    THEN Outcome(Missing("Missing 'conversations' list"), login, tbl, <<>>)
    ELSE LET conversations == self.conversations.val IN
    IF Len(conversations) = 0
    THEN Outcome(Panic("index out of bounds"), login, tbl, <<>>)
    ELSE CreateMessagesLoop(self.messages.val, 1, conversations[1], login, tbl, <<>>, fail)

\* Mutant of read_conversations: a failed fetch ends the session.
read_conversations_DropsSession(self, login, tbl, fail) ==
    IF login.is_authenticated = FALSE
    THEN Outcome(NotAuthenticated, login, tbl, <<>>)
    ELSE LET call == [op |-> "read-conversation", email |-> login.email] IN
    IF BackendFails(<<>>, fail)
    THEN Outcome(StorageError("Database"), NewLogin, tbl, Issued(<<>>, call, "Database"))
    ELSE Outcome(Ok(Success), login, tbl, Issued(<<>>, call, "Ok"))

\* Request::read_conversations
read_conversations(self, login, tbl, fail) ==
    IF login.is_authenticated = FALSE
    THEN Outcome(NotAuthenticated, login, tbl, <<>>)
    ELSE LET call == [op |-> "read-conversation", email |-> login.email] IN
    IF BackendFails(<<>>, fail)
    THEN Outcome(StorageError("Database"), login, tbl, Issued(<<>>, call, "Database"))
    ELSE Outcome(Ok(Success), login, tbl, Issued(<<>>, call, "Ok"))

\* Request::read_messages
read_messages(self, login, tbl, fail) ==
    IF login.is_authenticated = FALSE
    THEN Outcome(NotAuthenticated, login, tbl, <<>>)
    ELSE IF ~self.conversations.some
    THEN Outcome(Missing("Missing 'conversations' list"), login, tbl, <<>>)
    ELSE LET conversations == self.conversations.val IN
    IF Len(conversations) = 0
    THEN Outcome(Panic("index out of bounds"), login, tbl, <<>>)
    ELSE LET conversation == conversations[1] IN
    IF ~conversation.id.some
    THEN Outcome(Missing("Missing 'id' field for 'conversation'"), login, tbl, <<>>)
    ELSE LET call == [op |-> "read-message", email |-> login.email, id |-> conversation.id.val] IN
    IF BackendFails(<<>>, fail)
    THEN Outcome(StorageError("Database"), login, tbl, Issued(<<>>, call, "Database"))
    ELSE Outcome(Ok(Success), login, tbl, Issued(<<>>, call, "Ok"))

\* Mutant of read_users: the payload is validated before the gate.
read_users_ListsBeforeGate(self, login, tbl, fail) ==
    IF ~self.conversations.some
    THEN Outcome(Missing("Missing 'conversations' list"), login, tbl, <<>>)
    ELSE LET conversations == self.conversations.val IN
    IF Len(conversations) = 0
    THEN Outcome(Panic("index out of bounds"), login, tbl, <<>>)
    ELSE LET conversation == conversations[1] IN
    IF ~conversation.id.some
    THEN Outcome(Missing("Missing 'id' field for 'conversation'"), login, tbl, <<>>)
    ELSE IF login.is_authenticated = FALSE
    THEN Outcome(NotAuthenticated, login, tbl, <<>>)
    ELSE LET call == [op |-> "read-user", email |-> login.email, id |-> conversation.id.val] IN
    IF BackendFails(<<>>, fail)
    THEN Outcome(StorageError("Database"), login, tbl, Issued(<<>>, call, "Database"))
    ELSE Outcome(Ok(Success), login, tbl, Issued(<<>>, call, "Ok"))

\* Request::read_users
read_users(self, login, tbl, fail) ==
    IF login.is_authenticated = FALSE
    THEN Outcome(NotAuthenticated, login, tbl, <<>>)
    ELSE IF ~self.conversations.some
    THEN Outcome(Missing("Missing 'conversations' list"), login, tbl, <<>>)
    ELSE LET conversations == self.conversations.val IN
    IF Len(conversations) = 0
    THEN Outcome(Panic("index out of bounds"), login, tbl, <<>>)
    ELSE LET conversation == conversations[1] IN
    IF ~conversation.id.some
    THEN Outcome(Missing("Missing 'id' field for 'conversation'"), login, tbl, <<>>)
    ELSE LET call == [op |-> "read-user", email |-> login.email, id |-> conversation.id.val] IN
    IF BackendFails(<<>>, fail)
    THEN Outcome(StorageError("Database"), login, tbl, Issued(<<>>, call, "Database"))
    ELSE Outcome(Ok(Success), login, tbl, Issued(<<>>, call, "Ok"))

(***************************************************************************)
(* Inputs                                                                  *)
(***************************************************************************)
Alice == "alice@example.com"
Bob == "bob@example.com"

User(e, p, k) == [email |-> e, password |-> p, public_key |-> k]
Message(d, m, t, s) == [data |-> d, media_type |-> m, timestamp |-> t, signature |-> s]
Conversation(i, n) == [id |-> i, name |-> n]

\* Users: complete ones (two passwords for one email, a second email) and
\* one with each required field absent.
UserItems ==
    { User(Some(Alice), Some("correct"), Some("pk")),
      User(Some(Alice), Some("wrong"), Some("pk")),
      User(Some(Bob), Some("correct"), Some("pk")),
      User(None, Some("correct"), Some("pk")),
      User(Some(Alice), None, Some("pk")),
      User(Some(Alice), Some("correct"), None) }

\* Messages: two complete ones and one with each required field absent.
MessageItems ==
    { Message(Some("d1"), Some("text"), Some("t1"), Some("sig")),
      Message(Some("d2"), Some("text"), Some("t2"), Some("sig")),
      Message(None, Some("text"), Some("t1"), Some("sig")),
      Message(Some("d1"), None, Some("t1"), Some("sig")),
      Message(Some("d1"), Some("text"), None, Some("sig")),
      Message(Some("d1"), Some("text"), Some("t1"), None) }

\* Conversations: with and without id, with a name that is text ("chat"),
\* a name that is not UTF-8, and no name.
ChatName == <<99, 104, 97, 116>>
ConversationItems ==
    { Conversation(Some(7), Some(ChatName)),
      Conversation(None, Some(ChatName)),
      Conversation(Some(7), None),
      Conversation(Some(7), Some(<<255>>)) }

\* The values of a list key holding n items drawn from `items`; `empties`
\* are the values it can have with no item.
ListValues(items, empties, n) ==
    IF n = 0 THEN empties ELSE {JArray(a) : a \in [1..n -> items]}

\* The (users, messages, conversations) values with at most MaxItems users
\* or at most MaxItems messages (no handler reads both lists) and at most
\* one conversation (the code reads no conversation but conversations[0]).
\* An envelope of users has no messages key; an envelope of messages has no
\* users key or the users list `guest`, which no handler of messages reads.
Payloads(us, ms, cs, empties, guest) ==
    UNION { ListValues(us, IF n[2] = 0 THEN empties ELSE {JNull, guest}, n[1])
                \X ListValues(ms, IF n[1] = 0 THEN empties ELSE {JNull}, n[2])
                \X ListValues(cs, empties, n[3]) :
            n \in {t \in (0..MaxItems) \X (0..MaxItems) \X (0..1) :
                     t[1] = 0 \/ t[2] = 0} }

Sp == <<" ">>

\* The function strings of the seven handlers.
HandledFunctions ==
    { VERIFY \o Sp \o USERS, CREATE \o Sp \o USERS,
      CREATE \o Sp \o CONVERSATIONS, CREATE \o Sp \o MESSAGES,
      READ \o Sp \o CONVERSATIONS, READ \o Sp \o MESSAGES, READ \o Sp \o USERS }

\* What a connection is sent in the session model: well-formed requests for
\* the handlers, and text that is not JSON.
SessionEnvelopes ==
    {NotJson} \cup
    { Envelope(JString(f), p[1], p[2], p[3]) :
        f \in HandledFunctions,
        p \in Payloads({Good(u) : u \in UserItems},
                       {Good(m) : m \in MessageItems},
                       {Good(c) : c \in ConversationItems},
                       {JNull, JArray(<<>>)},
                       JArray(<<Good(User(Some(Bob), Some("correct"), Some("pk")))>>)) }

\* Tokens: the eight the code knows, two in the wrong case, two unknown.
Tokens ==
    { VERIFY, CREATE, READ, UPDATE, DELETE, CONVERSATIONS, MESSAGES, USERS,
      <<"r", "e", "a", "d">>, <<"u", "s", "e", "r", "s">>,
      <<"P", "I", "N", "G">>, <<"R", "O", "O", "M", "S">> }

\* Function strings: every pair of tokens, and strings with zero, one and
\* three tokens and with other whitespace around and between them.
FunctionStrings ==
    { a \o Sp \o b : a \in Tokens, b \in Tokens } \cup
    { <<>>, Sp, <<"\t", "\n">>, READ, READ \o Sp, Sp \o USERS,
      READ \o Sp \o USERS \o Sp \o MESSAGES,
      <<"P", "I", "N", "G">> \o Sp \o USERS \o Sp \o READ,
      Sp \o READ \o <<"\t", " ">> \o USERS \o <<"\n">>,
      READ \o USERS }

FunctionValues == {JNull, JNumber} \cup {JString(f) : f \in FunctionStrings}

\* What the parser is given in the parsing model: every function value, with
\* lists that are absent, not arrays, or arrays of items the decoder accepts
\* or rejects.
ParseEnvelopes ==
    {NotJson} \cup
    { Envelope(f, p[1], p[2], p[3]) :
        f \in FunctionValues,
        p \in Payloads({Good(User(Some(Alice), Some("correct"), Some("pk"))), Bad},
                       {Good(Message(Some("d1"), Some("text"), Some("t1"), Some("sig"))), Bad},
                       {Good(Conversation(Some(7), Some(ChatName))), Bad},
                       {JNull, JArray(<<>>), JNumber},
                       JArray(<<Bad>>)) }

(***************************************************************************)
(* State                                                                   *)
(***************************************************************************)
VARIABLES
    login,      \* the connection's Login: [email, is_authenticated]
    users_tbl,  \* the users table: email -> Option<Password>
    pc,         \* "idle", "parsed", "failed", "returned" or "aborted"
    envelope,   \* the envelope being served
    request,    \* what from_json made of it
    handler,    \* the handler the request was given to
    before,     \* the Login as it was when the handler was called
    result,     \* what the handler returned
    calls,      \* the storage calls the handler issued, in order
    verified,   \* history: some verify_users of this session returned Ok
    hashing,    \* the hasher on its own: a plaintext, a draw, what came of them
    conns       \* two connections served at once, each with its own Login

vars == <<login, users_tbl, pc, envelope, request, handler, before, result, calls, verified,
          hashing, conns>>

\* The hasher before it is given anything.
NoHashing ==
    [at |-> "none", password |-> "", rnd |-> NoResult, hashed |-> NoResult,
     candidate |-> "", valid |-> NoResult]

\* What the server keeps for a connection: its Login, the handler it is in
\* (`pending` is what that handler will return), and what it last returned.
Conns == {1, 2}
NewConn ==
    [login |-> NewLogin, pc |-> "idle", handler |-> "none", pending |-> NoResult,
     result |-> NoResult, verified |-> FALSE]

Init ==
    /\ login = NewLogin
    /\ users_tbl = NoUsers
    /\ pc = "idle"
    /\ envelope = NotJson
    /\ request = NoResult
    /\ handler = "none"
    /\ before = NewLogin
    /\ result = NoResult
    /\ calls = <<>>
    /\ verified = FALSE
    /\ hashing = NoHashing
    /\ conns = [c \in Conns |-> NewConn]

\* The length of an optional list; an absent one counts as empty.
Count(list) == IF list.some THEN Len(list.val) ELSE 0

\* The handler of a request, by its operation and target.
Dispatch(req) ==
    CASE req.operation = "Verify" /\ req.target = "Users" -> "verify_users"
      [] req.operation = "Create" /\ req.target = "Users" -> "create_users"
      [] req.operation = "Create" /\ req.target = "Conversations" -> "create_conversations"
      [] req.operation = "Create" /\ req.target = "Messages" -> "create_messages"
      [] req.operation = "Read" /\ req.target = "Conversations" -> "read_conversations"
      [] req.operation = "Read" /\ req.target = "Messages" -> "read_messages"
      [] req.operation = "Read" /\ req.target = "Users" -> "read_users"
      [] OTHER -> "none"

\* The connection parses an envelope.
FromJson(e) ==
    /\ pc = "idle"
    /\ envelope' = e
    /\ request' = from_json(e)
    /\ pc' = CASE request'.kind = "Ok" -> "parsed"
               [] request'.kind = "Err" -> "failed"
               [] OTHER -> "aborted"
    /\ UNCHANGED <<login, users_tbl, handler, before, result, calls, verified>>
    /\ UNCHANGED <<hashing, conns>>

\* A handler ran to outcome o: a panic ends the task, anything else returns.
Ran(h, o) ==
    /\ handler' = h
    /\ before' = login
    /\ login' = o.login
    /\ users_tbl' = o.tbl
    /\ result' = o.result
    /\ calls' = o.calls
    /\ pc' = IF o.result.kind = "Panic" THEN "aborted" ELSE "returned"
    /\ verified' = (verified \/ (h = "verify_users" /\ o.result.kind = "Ok"))
    /\ UNCHANGED <<envelope, request, hashing, conns>>

Dispatched(h) == pc = "parsed" /\ Dispatch(request.val) = h

\* What getrandom does in the n hashes of one create_users.  The loop returns
\* at the first hash that fails, so the draws after it never happen: they
\* are given as equal to the failed one.
RandomRuns(n) ==
    {r \in [1..n -> GetRandom] :
        \A i \in 1..n :
            PasswordHash("", r[i]).kind # "Ok" => \A j \in i..n : r[j] = r[i]}

\* In each handler action, `fail` ranges over the storage calls the handler
\* can issue for the request (0: the backend fails none of them).
VerifyUsers ==
    /\ Dispatched("verify_users")
    /\ \E fail \in 0..1 :
         Ran("verify_users", verify_users(request.val, login, users_tbl, fail))

CreateUsers ==
    /\ Dispatched("create_users")
    /\ LET n == Count(request.val.users) IN
       \E fail \in 0..n, rnd \in RandomRuns(n) :
         Ran("create_users", create_users(request.val, login, users_tbl, fail, rnd))

CreateConversations ==
    /\ Dispatched("create_conversations")
    /\ \E fail \in 0..(2 + Count(request.val.users)) :
         Ran("create_conversations",
             create_conversations(request.val, login, users_tbl, fail))

CreateMessages ==
    /\ Dispatched("create_messages")
    /\ \E fail \in 0..Count(request.val.messages) :
         Ran("create_messages", create_messages(request.val, login, users_tbl, fail))

ReadConversations ==
    /\ Dispatched("read_conversations")
    /\ \E fail \in 0..1 :
         Ran("read_conversations", read_conversations(request.val, login, users_tbl, fail))

ReadMessages ==
    /\ Dispatched("read_messages")
    /\ \E fail \in 0..1 :
         Ran("read_messages", read_messages(request.val, login, users_tbl, fail))

ReadUsers ==
    /\ Dispatched("read_users")
    /\ \E fail \in 0..1 :
         Ran("read_users", read_users(request.val, login, users_tbl, fail))

\* The outcome goes back to the peer and the connection awaits the next
\* envelope; the session and the tables stay.
Respond ==
    /\ pc \in {"returned", "failed"}
    /\ pc' = "idle"
    /\ envelope' = NotJson
    /\ request' = NoResult
    /\ handler' = "none"
    /\ before' = NewLogin
    /\ result' = NoResult
    /\ calls' = <<>>
    /\ UNCHANGED <<login, users_tbl, verified, hashing, conns>>

Receive == pc = "idle" /\ \E e \in SessionEnvelopes : FromJson(e)

Next ==
    \/ Receive
    \/ VerifyUsers
    \/ CreateUsers
    \/ CreateConversations
    \/ CreateMessages
    \/ ReadConversations
    \/ ReadMessages
    \/ ReadUsers
    \/ Respond

Spec == Init /\ [][Next]_vars

\* The parser alone, on every envelope of ParseEnvelopes.
Parse == pc = "idle" /\ \E e \in ParseEnvelopes : FromJson(e)

ParseNext == Parse

SpecParse == Init /\ [][ParseNext]_vars

(***************************************************************************)
(* The hasher alone: Password::hash on a plaintext and a draw of getrandom,*)
(* then Password::is_valid on what it returned, with a candidate.          *)
(***************************************************************************)
session_vars == <<login, users_tbl, pc, envelope, request, handler, before, result, calls, verified>>

Plaintexts == {"", "a", "b", "correct", "wrong", "Correct", "correct ", "pass word"}

InitHash ==
    /\ login = NewLogin
    /\ users_tbl = NoUsers
    /\ pc = "idle"
    /\ envelope = NotJson
    /\ request = NoResult
    /\ handler = "none"
    /\ before = NewLogin
    /\ result = NoResult
    /\ calls = <<>>
    /\ verified = FALSE
    /\ conns = [c \in Conns |-> NewConn]
    /\ hashing \in {[NoHashing EXCEPT !.at = "drawn", !.password = p, !.rnd = r] :
                      p \in Plaintexts, r \in GetRandom}

Hash ==
    /\ hashing.at = "drawn"
    /\ hashing' = [hashing EXCEPT !.at = "hashed",
                                  !.hashed = PasswordHash(hashing.password, hashing.rnd)]
    /\ UNCHANGED <<session_vars, conns>>

IsValid ==
    /\ hashing.at = "hashed"
    /\ hashing.hashed.kind = "Ok"
    /\ \E q \in Plaintexts :
         hashing' = [hashing EXCEPT !.at = "checked",
                                    !.candidate = q,
                                    !.valid = is_valid(hashing.hashed.val, q)]
    /\ UNCHANGED <<session_vars, conns>>

HashNext == Hash \/ IsValid

SpecHash == InitHash /\ [][HashNext]_vars

(***************************************************************************)
(* Two connections served at once.  A handler is one task that suspends at *)
(* its storage call: the steps of the two connections interleave there.    *)
(* The users table is the one both see; a Login is the connection's own.   *)
(***************************************************************************)
\* What the two connections are sent: sign-up and login of one email with
\* two passwords, and the gated read of conversations.
TwoEnvelopes ==
    { Envelope(JString(f), JArray(<<Good(u)>>), JNull, JNull) :
        f \in {VERIFY \o Sp \o USERS, CREATE \o Sp \o USERS},
        u \in {User(Some(Alice), Some("correct"), Some("pk")),
               User(Some(Alice), Some("wrong"), Some("pk"))} }
    \cup {Envelope(JString(READ \o Sp \o CONVERSATIONS), JNull, JNull, JNull)}

\* The requests among them that go to handler h.
RequestsFor(h) ==
    {from_json(e).val : e \in {d \in TwoEnvelopes : Dispatch(from_json(d).val) = h}}

\* Connection c entered handler h, which will return o: the storage has
\* answered its call, the handler has not resumed yet.
Called(c, h, o) ==
    /\ conns' = [conns EXCEPT ![c] = [@ EXCEPT !.pc = "awaiting",
                                               !.handler = h,
                                               !.pending = o]]
    /\ users_tbl' = o.tbl
    /\ UNCHANGED <<login, pc, envelope, request, handler, before, result, calls, verified>>
    /\ UNCHANGED hashing

\* Mutant of Returned: there is one Login, which every connection uses.
Returned_OneLogin(sessions, c) ==
    LET o == sessions[c].pending IN
    [d \in Conns |->
        IF d = c
        THEN [sessions[c] EXCEPT
                !.pc = "returned",
                !.login = o.login,
                !.result = o.result,
                !.pending = NoResult,
                !.verified = (@ \/ (sessions[c].handler = "verify_users"
                                      /\ o.result.kind = "Ok"))]
        ELSE [sessions[d] EXCEPT !.login = o.login]]

\* The connections after the handler of c resumed and returned: what it
\* wrote through its `login: &mut Login` is in the Login of c.
Returned(sessions, c) ==
    LET o == sessions[c].pending IN
    [sessions EXCEPT
        ![c] = [@ EXCEPT
                  !.pc = "returned",
                  !.login = o.login,
                  !.result = o.result,
                  !.pending = NoResult,
                  !.verified = (@ \/ (sessions[c].handler = "verify_users"
                                        /\ o.result.kind = "Ok"))]]

VerifyUsersOn(c) ==
    /\ conns[c].pc = "idle"
    /\ \E req \in RequestsFor("verify_users"), fail \in 0..1 :
         Called(c, "verify_users", verify_users(req, conns[c].login, users_tbl, fail))

CreateUsersOn(c) ==
    /\ conns[c].pc = "idle"
    /\ \E req \in RequestsFor("create_users"), fail \in 0..1, rnd \in RandomRuns(1) :
         Called(c, "create_users", create_users(req, conns[c].login, users_tbl, fail, rnd))

ReadConversationsOn(c) ==
    /\ conns[c].pc = "idle"
    /\ \E req \in RequestsFor("read_conversations"), fail \in 0..1 :
         Called(c, "read_conversations",
                read_conversations(req, conns[c].login, users_tbl, fail))

ReturnsOn(c) ==
    /\ conns[c].pc = "awaiting"
    /\ conns' = Returned(conns, c)
    /\ UNCHANGED <<session_vars, hashing>>

RespondOn(c) ==
    /\ conns[c].pc = "returned"
    /\ conns' = [conns EXCEPT ![c] = [@ EXCEPT !.pc = "idle",
                                               !.handler = "none",
                                               !.result = NoResult]]
    /\ UNCHANGED <<session_vars, hashing>>

TwoNext ==
    \E c \in Conns :
        \/ VerifyUsersOn(c)
        \/ CreateUsersOn(c)
        \/ ReadConversationsOn(c)
        \/ ReturnsOn(c)
        \/ RespondOn(c)

SpecTwo == Init /\ [][TwoNext]_vars

(***************************************************************************)
(* Properties                                                              *)
(***************************************************************************)
\* A handler has run on `request` and its outcome is in `result`.
Done == pc \in {"returned", "aborted"} /\ handler # "none"
Req == request.val

Gated ==
    {"create_conversations", "create_messages", "read_conversations",
     "read_messages", "read_users"}

Unauthorized(r) == r.kind = "Err" /\ r.error = "PermissionDenied"
InvalidRequest(r) == r.kind = "Err" /\ r.error = "InvalidInput"

\* C1: a gated handler called on a session whose is_authenticated is false
\* fails with Unauthorized (PermissionDenied), whatever the payload.
C1_GatedFailsUnauthenticated ==
    (Done /\ handler \in Gated /\ ~before.is_authenticated) => Unauthorized(result)

\* C1 happens: create_conversations on an unauthenticated session with a
\* users list and an empty conversations list is refused by the gate.
C1_Witness ==
    /\ Done
    /\ handler = "create_conversations"
    /\ ~before.is_authenticated
    /\ Req.users.some
    /\ Req.conversations = Some(<<>>)
    /\ Unauthorized(result)

\* The lists a handler requires, in the order it asks for them.
RequiredLists(h) ==
    CASE h = "create_conversations" -> <<"users", "conversations">>
      [] h = "create_messages" -> <<"messages", "conversations">>
      [] h = "read_messages" -> <<"conversations">>
      [] h = "read_users" -> <<"conversations">>
      [] OTHER -> <<>>

ListOf(req, key) ==
    CASE key = "users" -> req.users
      [] key = "messages" -> req.messages
      [] key = "conversations" -> req.conversations

MissingLists(h, req) ==
    {i \in 1..Len(RequiredLists(h)) : ~ListOf(req, RequiredLists(h)[i]).some}

MissingList(h, req) == MissingLists(h, req) # {}

\* The message for the first required list that is absent.
FirstMissingList(h, req) ==
    LET i == CHOOSE j \in MissingLists(h, req) : \A k \in MissingLists(h, req) : j <= k
        key == RequiredLists(h)[i]
    IN CASE key = "users" -> "Missing 'users' list"
         [] key = "messages" -> "Missing 'messages' list"
         [] key = "conversations" -> "Missing 'conversations' list"

\* Some element of a present list lacks a field the handler requires.
MissingField(h, req) ==
    CASE h = "create_conversations" ->
           \/ /\ req.conversations.some
              /\ Len(req.conversations.val) > 0
              /\ ~req.conversations.val[1].name.some
           \/ /\ req.users.some
              /\ \E i \in 1..Len(req.users.val) : ~req.users.val[i].email.some
      [] h = "create_messages" ->
           /\ req.messages.some
           /\ \E i \in 1..Len(req.messages.val) :
                LET m == req.messages.val[i] IN
                ~m.data.some \/ ~m.media_type.some \/ ~m.timestamp.some \/ ~m.signature.some
      [] h \in {"read_messages", "read_users"} ->
           /\ req.conversations.some
           /\ Len(req.conversations.val) > 0
           /\ ~req.conversations.val[1].id.some
      [] OTHER -> FALSE

\* C2 as stated: a gated handler given a request that lacks a required list
\* or field, on an unauthenticated session, reports InvalidRequest.
C2_Original ==
    (/\ Done
     /\ handler \in Gated
     /\ ~before.is_authenticated
     /\ (MissingList(handler, Req) \/ MissingField(handler, Req)))
    => InvalidRequest(result)

\* C2 as amended: the authorization check comes first, then the required
\* lists, then the fields.  A request that lacks a required list or field on
\* an unauthenticated session reports Unauthorized; on an authenticated
\* session a request that lacks a required list reports that list (the first
\* one absent), whatever its elements lack.
C2_GateThenListsThenFields ==
    (Done /\ handler \in Gated) =>
        /\ (/\ ~before.is_authenticated
            /\ (MissingList(handler, Req) \/ MissingField(handler, Req)))
           => Unauthorized(result)
        /\ (before.is_authenticated /\ MissingList(handler, Req))
           => result = Missing(FirstMissingList(handler, Req))

\* C2 happens: create_messages without a conversations list and with a
\* message that lacks a field, on an unauthenticated session.
C2_Witness ==
    /\ Done
    /\ handler = "create_messages"
    /\ ~before.is_authenticated
    /\ MissingList(handler, Req)
    /\ MissingField(handler, Req)
    /\ Unauthorized(result)

\* The first user of a verify_users request carries email and password, and
\* the lookup for that email was answered by the backend.
VerifyLookedUp ==
    /\ Done
    /\ handler = "verify_users"
    /\ Req.users.some
    /\ Len(Req.users.val) > 0
    /\ Req.users.val[1].email.some
    /\ Req.users.val[1].password.some
    /\ Len(calls) = 1
    /\ calls[1].outcome # "Database"

Submitted == Req.users.val[1]
Stored == users_tbl[Submitted.email.val]

\* The submitted password hashes, with the stored salt, to the stored hash.
Matches(password, stored) == argon2i_simple(password, stored.salt) = stored.hash

\* C3: verify_users for an email that has a stored credential, with the
\* password that matches it (the lookup yielding that credential), returns
\* success and leaves the session authenticated as the submitted email.
C3_VerifyAuthenticates ==
    (VerifyLookedUp /\ Stored.some /\ Matches(Submitted.password.val, Stored.val))
    => /\ result = Ok(Success)
       /\ login = [email |-> Submitted.email.val, is_authenticated |-> TRUE]

\* C3 happens: an unauthenticated session verifies with the stored password.
C3_Witness ==
    /\ VerifyLookedUp
    /\ Stored.some
    /\ Matches(Submitted.password.val, Stored.val)
    /\ ~before.is_authenticated
    /\ result.kind = "Ok"

\* C4: verify_users with a password that does not match the stored
\* credential of the submitted email fails with Unauthorized and leaves the
\* session (flag and identity) as it was before the call.
C4_MismatchLeavesSession ==
    (VerifyLookedUp /\ Stored.some /\ ~Matches(Submitted.password.val, Stored.val))
    => /\ result = Err("PermissionDenied", "Invalid password")
       /\ login = before

\* C4 happens: a wrong password on an unauthenticated session.
C4_Witness ==
    /\ VerifyLookedUp
    /\ Stored.some
    /\ ~Matches(Submitted.password.val, Stored.val)
    /\ ~before.is_authenticated
    /\ ~login.is_authenticated

\* C5: on a session that starts unauthenticated, is_authenticated is true
\* exactly when some earlier verify_users of the session returned success,
\* and once true it stays true.
C5_FlagIffVerified ==
    /\ [](login.is_authenticated <=> verified)
    /\ [][login.is_authenticated => login'.is_authenticated]_vars

\* C5 happens: the flag is still set when a later handler has run.
C5_Witness ==
    /\ Done
    /\ handler = "create_users"
    /\ result.kind = "Ok"
    /\ before.is_authenticated
    /\ login.is_authenticated
    /\ verified

\* A request that verifies user u.
VerifyRequest(u) ==
    [operation |-> "Verify", target |-> "Users",
     users |-> Some(<<u>>), messages |-> None, conversations |-> None]

\* The users whose email is stored and whose password does not match.
WrongPasswordUsers ==
    {u \in UserItems :
        /\ u.email.some
        /\ u.password.some
        /\ users_tbl[u.email.val].some
        /\ ~Matches(u.password.val, users_tbl[u.email.val].val)}

\* verify_users has run for an email that has no stored credential.
VerifyUnknownEmail == VerifyLookedUp /\ ~Stored.some

\* C6 as stated: a Verify for an email with no stored credential produces
\* the same error kind and message as a Verify, in the same state, for a
\* stored email with a wrong password.
C6_Original ==
    VerifyUnknownEmail =>
        \A u \in WrongPasswordUsers :
            result = verify_users(VerifyRequest(u), before, users_tbl, 0).result

\* C6 as amended: the two failures differ.  A Verify for an email with no
\* stored credential fails with the storage layer's row-not-found error, a
\* Verify for a stored email with a wrong password fails with Unauthorized
\* ("Invalid password"); neither changes the session.
C6_FailuresDiffer ==
    VerifyUnknownEmail =>
        /\ result = StorageError("RowNotFound")
        /\ login = before
        /\ \A u \in WrongPasswordUsers :
             LET o == verify_users(VerifyRequest(u), before, users_tbl, 0) IN
             /\ o.result = Err("PermissionDenied", "Invalid password")
             /\ o.result # result
             /\ o.login = before

\* C6 happens: an unknown email is verified while another email is stored
\* for which a wrong password can be submitted.
C6_Witness ==
    /\ VerifyUnknownEmail
    /\ WrongPasswordUsers # {}

\* The tokens of the enumerations and the variants they name.
OperationNames ==
    (VERIFY :> "Verify") @@ (CREATE :> "Create") @@ (READ :> "Read")
        @@ (UPDATE :> "Update") @@ (DELETE :> "Delete")
TargetNames ==
    (CONVERSATIONS :> "Conversations") @@ (MESSAGES :> "Messages") @@ (USERS :> "Users")

\* from_json has run on `envelope`.
Parsed == pc # "idle"

FunctionTokens(e) == split_ascii_whitespace(e.function.s)

\* The function of the envelope is a string of exactly two tokens.
TwoTokens(e) ==
    e.json /\ e.function.t = "string" /\ Len(FunctionTokens(e)) = 2

\* Every item of every list of the envelope is one the decoders accept.
ItemsDecode(e) ==
    \A v \in {e.users, e.messages, e.conversations} :
        v.t = "array" => \A i \in 1..Len(v.items) : v.items[i].ok

\* C7: for an envelope whose function is a string of two tokens (and whose
\* list items decode), from_json succeeds exactly when the first token is
\* one of VERIFY, CREATE, READ, UPDATE, DELETE and the second one of
\* CONVERSATIONS, MESSAGES, USERS; the request then carries the operation
\* and target they name, and every other pair fails with InvalidRequest.
C7_ParsesIffKnownTokens ==
    (Parsed /\ TwoTokens(envelope) /\ ItemsDecode(envelope)) =>
        LET t == FunctionTokens(envelope) IN
        IF t[1] \in DOMAIN OperationNames /\ t[2] \in DOMAIN TargetNames
        THEN /\ request.kind = "Ok"
             /\ request.val.operation = OperationNames[t[1]]
             /\ request.val.target = TargetNames[t[2]]
        ELSE InvalidRequest(request)

\* C7 happens: a pair of known tokens parsed, with a list in the envelope.
C7_Witness ==
    /\ Parsed
    /\ TwoTokens(envelope)
    /\ ItemsDecode(envelope)
    /\ envelope.users.t = "array"
    /\ request.kind = "Ok"
    /\ request.val.operation = "Delete"
    /\ request.val.target = "Messages"

\* C8: from_json ends in a Request or in an error value for every envelope,
\* never in an abort.
C8_ParseIsTotal == Parsed => request.kind \in {"Ok", "Err"}

\* A list the handler takes element [0] of is present and has no element.
EmptyRequiredList(h, req) ==
    CASE h = "verify_users" -> req.users = Some(<<>>)
      [] h \in {"create_conversations", "create_messages", "read_messages", "read_users"} ->
           req.conversations = Some(<<>>)
      [] OTHER -> FALSE

\* C9: every handler invocation returns a Response or an error; called with
\* a required list that is present but empty, it returns an error.
C9_HandlerAlwaysReturns ==
    Done => /\ result.kind \in {"Ok", "Err"}
            /\ EmptyRequiredList(handler, Req) => result.kind = "Err"

Complete(user) == user.email.some /\ user.password.some /\ user.public_key.some

\* The index (from 1) of the first user that lacks a field; 0 if none does.
FirstIncomplete(users) ==
    LET bad == {i \in 1..Len(users) : ~Complete(users[i])} IN
    IF bad = {} THEN 0 ELSE CHOOSE i \in bad : \A j \in bad : i <= j

\* C10: in create_users, if the first element that lacks email, password or
\* public_key is element k (counted from 0) and no storage call fails (nor
\* the random source), the call fails with InvalidRequest having issued
\* exactly the writes for elements 0..k-1, in list order.
C10_WritesBeforeFirstIncomplete ==
    (/\ Done
     /\ handler = "create_users"
     /\ Req.users.some
     /\ FirstIncomplete(Req.users.val) > 0
     /\ \A i \in 1..Len(calls) : calls[i].outcome = "Ok"
     /\ ~(result.kind = "Err" /\ result.error = "Random"))
    => LET users == Req.users.val
           k == FirstIncomplete(users) - 1
       IN /\ InvalidRequest(result)
          /\ Len(calls) = k
          /\ \A i \in 1..k :
               /\ calls[i].call.op = "create-user"
               /\ calls[i].call.email = users[i].email.val
               /\ calls[i].call.public_key = users[i].public_key.val

\* create_messages has run on an authenticated session for a request with a
\* messages list whose elements all carry data, media_type, timestamp and
\* signature, and a conversations list whose first element has no id.
CompleteMessage(m) ==
    m.data.some /\ m.media_type.some /\ m.timestamp.some /\ m.signature.some

MessagesWithoutConversationId ==
    /\ Done
    /\ handler = "create_messages"
    /\ before.is_authenticated
    /\ Req.messages.some
    /\ \A i \in 1..Len(Req.messages.val) : CompleteMessage(Req.messages.val[i])
    /\ Req.conversations.some
    /\ Len(Req.conversations.val) > 0
    /\ ~Req.conversations.val[1].id.some

AllCallsOk == \A i \in 1..Len(calls) : calls[i].outcome = "Ok"

\* C11 as stated: create_messages does not validate the id of
\* conversations[0]; with complete messages and no id it succeeds (storage
\* not failing) and stores one row per message.
C11_Original ==
    (MessagesWithoutConversationId /\ AllCallsOk)
    => /\ result = Ok(Success)
       /\ Len(calls) = Len(Req.messages.val)

\* C11 as amended: create_messages validates the id of conversations[0], for
\* each message after that message's own fields.  With complete messages and
\* no id it fails with InvalidRequest ("Missing 'id' field for 'message'")
\* and stores no row, unless the messages list is empty: then it succeeds,
\* storing nothing.
C11_IdValidatedPerMessage ==
    MessagesWithoutConversationId
    => /\ calls = <<>>
       /\ result = IF Len(Req.messages.val) = 0
                   THEN Ok(Success)
                   ELSE Missing("Missing 'id' field for 'message'")

\* C11 happens: two complete messages, a conversation without id.
C11_Witness ==
    /\ MessagesWithoutConversationId
    /\ Len(Req.messages.val) = 2
    /\ InvalidRequest(result)

(***************************************************************************)
(* C12: a create_conversations that succeeds on an authenticated session   *)
(* with n users has issued exactly 2 + n storage writes, in this order:    *)
(* the insert of the conversation row, the member insert for the caller's  *)
(* email, then one member insert per element of the users list, in list    *)
(* order.                                                                  *)
(***************************************************************************)
ConversationsCreated ==
    /\ Done
    /\ handler = "create_conversations"
    /\ before.is_authenticated
    /\ result.kind = "Ok"

\* The conversation's name as text ("chat" is the one name that is text).
NameText(req) == from_utf8(req.conversations.val[1].name.val).val

MemberInsert(email, name) ==
    [call |-> [op |-> "create-conversation-2", email |-> email, name |-> name],
     outcome |-> "Ok"]

C12_ConversationWritesInOrder ==
    ConversationsCreated =>
        LET users == Req.users.val
            name == NameText(Req)
        IN /\ Len(calls) = 2 + Len(users)
           /\ calls[1] = [call |-> [op |-> "create-conversation-1", name |-> name],
                          outcome |-> "Ok"]
           /\ calls[2] = MemberInsert(before.email, name)
           /\ \A i \in 1..Len(users) :
                calls[2 + i] = MemberInsert(users[i].email.val, name)

\* Two users with different emails were added, in the order of the list.
C12_Witness ==
    /\ ConversationsCreated
    /\ Len(Req.users.val) = 2
    /\ Req.users.val[1].email.val # Req.users.val[2].email.val
    /\ Len(calls) = 4
    /\ calls[3].call.email = Req.users.val[1].email.val

(***************************************************************************)
(* C13: for every plaintext and every freshly generated 32-byte salt, hash *)
(* returns a credential; is_valid on that credential is true for the same  *)
(* plaintext and false for every other one.                                *)
(***************************************************************************)
C13_HashRoundTrip ==
    /\ (hashing.at = "hashed" /\ hashing.rnd.kind = "Ok") => hashing.hashed.kind = "Ok"
    /\ hashing.at = "checked" =>
          hashing.valid = Ok(hashing.candidate = hashing.password)

(***************************************************************************)
(* C14: with two connections in handlers at once, each with its own        *)
(* session, a verify_users that succeeds on one never changes the flag or  *)
(* the identity of the other: under every interleaving, a connection on    *)
(* which no verify_users has succeeded has the session it started with,    *)
(* and a gated operation on it fails with Unauthorized.                    *)
(***************************************************************************)
C14_SessionsAreSeparate ==
    \A c \in Conns :
        ~conns[c].verified =>
            /\ conns[c].login = NewLogin
            /\ conns[c].pc = "awaiting" /\ conns[c].handler = "read_conversations"
                  => Unauthorized(conns[c].pending.result)
            /\ conns[c].pc = "returned" /\ conns[c].handler = "read_conversations"
                  => Unauthorized(conns[c].result)

\* One connection has verified and is in a gated read that was let through,
\* while the other, which has not, was refused.
C14_Witness ==
    \E c, d \in Conns :
        /\ c # d
        /\ conns[c].verified
        /\ conns[c].login = authenticate(NewLogin, Alice)
        /\ conns[c].pc = "awaiting"
        /\ conns[c].handler = "read_conversations"
        /\ conns[c].pending.result = Ok(Success)
        /\ ~conns[d].verified
        /\ conns[d].pc = "returned"
        /\ conns[d].handler = "read_conversations"
        /\ Unauthorized(conns[d].result)

(***************************************************************************)
(* C15: a users, messages or conversations key of the envelope that holds  *)
(* a value which is not an array makes from_json fail with InvalidRequest; *)
(* it is not taken as a list that is absent.                               *)
(***************************************************************************)
\* A list key of the envelope holds a number.
NonArrayList(e) ==
    e.json /\ \E v \in {e.users, e.messages, e.conversations} : v.t = "number"

C15_NonArrayListRejected ==
    (Parsed /\ TwoTokens(envelope) /\ NonArrayList(envelope)) => InvalidRequest(request)

(***************************************************************************)
(* C16: on an authenticated session, read_messages and read_users issue no *)
(* fetch and fail with InvalidRequest when the conversations list or the   *)
(* id of conversations[0] is absent; otherwise they, and read_conversations*)
(* always, issue exactly one fetch and, when it succeeds, return a         *)
(* Response with status 1 and no users, messages or conversations list.    *)
(***************************************************************************)
FetchOf(h) ==
    CASE h = "read_conversations" -> "read-conversation"
      [] h = "read_messages" -> "read-message"
      [] h = "read_users" -> "read-user"

\* The request has no conversations[0].id: no list, no element, or no id.
NoConversationId(req) ==
    \/ ~req.conversations.some
    \/ Len(req.conversations.val) = 0
    \/ ~req.conversations.val[1].id.some

C16_ReadsFetchOnce ==
    (/\ Done
     /\ handler \in {"read_conversations", "read_messages", "read_users"}
     /\ before.is_authenticated) =>
        IF handler # "read_conversations" /\ NoConversationId(Req)
        THEN calls = <<>> /\ InvalidRequest(result)
        ELSE /\ Len(calls) = 1
             /\ calls[1].call.op = FetchOf(handler)
             /\ calls[1].outcome = "Ok" =>
                  result = Ok([status |-> 1, conversations |-> None,
                               messages |-> None, users |-> None])

(***************************************************************************)
(* C17: when a storage call of a create_users, create_conversations or     *)
(* create_messages invocation fails, the handler returns that storage      *)
(* error and issues no further storage call: the failed call is the last   *)
(* of the invocation.                                                      *)
(***************************************************************************)
Creates == {"create_users", "create_conversations", "create_messages"}

C17_StopsAtFailedCall ==
    (Done /\ handler \in Creates) =>
        \A i \in 1..Len(calls) :
            calls[i].outcome # "Ok" =>
                /\ i = Len(calls)
                /\ result = StorageError(calls[i].outcome)

\* The insert of the first of two complete users failed (not for the email
\* being taken), and the second, of another email, was never tried.
C17_Witness ==
    /\ Done
    /\ handler = "create_users"
    /\ Req.users.some
    /\ Len(Req.users.val) = 2
    /\ Complete(Req.users.val[1])
    /\ Complete(Req.users.val[2])
    /\ Req.users.val[1].email.val # Req.users.val[2].email.val
    /\ ~users_tbl[Req.users.val[2].email.val].some
    /\ Len(calls) = 1
    /\ calls[1].outcome = "Database"
    /\ result = StorageError("Database")

(***************************************************************************)
(* C18: a create_messages that succeeds on an authenticated session has    *)
(* issued exactly one insert per element of the messages list, in list     *)
(* order, each with the email of the session, whatever emails the payload  *)
(* carries.                                                                *)
(***************************************************************************)
MessagesCreated ==
    /\ Done
    /\ handler = "create_messages"
    /\ before.is_authenticated
    /\ result.kind = "Ok"

MessageInsert(email, m) ==
    [call |-> [op |-> "create-message",
               email |-> email,
               data |-> m.data.val,
               media_type |-> m.media_type.val,
               timestamp |-> m.timestamp.val,
               signature |-> m.signature.val],
     outcome |-> "Ok"]

C18_OneInsertPerMessage ==
    MessagesCreated =>
        LET messages == Req.messages.val IN
        /\ Len(calls) = Len(messages)
        /\ \A i \in 1..Len(messages) : calls[i] = MessageInsert(before.email, messages[i])

\* Two different messages were stored in their order for the session's
\* email, while the payload carried a user of another email.
C18_Witness ==
    /\ MessagesCreated
    /\ Len(Req.messages.val) = 2
    /\ Req.messages.val[1] # Req.messages.val[2]
    /\ Len(calls) = 2
    /\ calls[1].call.data = Req.messages.val[1].data.val
    /\ Req.users.some
    /\ Len(Req.users.val) = 1
    /\ Req.users.val[1].email.val # before.email
    /\ calls[2].call.email = before.email

(***************************************************************************)
(* C19: in create_conversations the email of a users element is checked    *)
(* only when its member insert is about to be issued.  On an authenticated *)
(* session, with the lists present and a conversations[0] whose name is    *)
(* text, if the first element without email is element k (counted from 0)  *)
(* and no storage call fails, the call fails with InvalidRequest after the *)
(* conversation row, the caller's membership and the memberships of the    *)
(* elements 0..k-1 have been issued: 2 + k writes, all of them inserts     *)
(* that succeeded, and no call that takes one of them back.                *)
(***************************************************************************)
\* create_conversations ran on a request that passes what it validates
\* before its first write.
ReachedConversationWrites ==
    /\ Done
    /\ handler = "create_conversations"
    /\ before.is_authenticated
    /\ Req.users.some
    /\ Req.conversations.some
    /\ Len(Req.conversations.val) > 0
    /\ Req.conversations.val[1].name.some
    /\ from_utf8(Req.conversations.val[1].name.val).kind = "Ok"

\* The index (from 1) of the first user without email; 0 if every one has it.
FirstWithoutEmail(users) ==
    LET bad == {i \in 1..Len(users) : ~users[i].email.some} IN
    IF bad = {} THEN 0 ELSE CHOOSE i \in bad : \A j \in bad : i <= j

C19_EmailCheckedAtInsert ==
    (/\ ReachedConversationWrites
     /\ FirstWithoutEmail(Req.users.val) > 0
     /\ AllCallsOk) =>
        LET users == Req.users.val
            k == FirstWithoutEmail(users) - 1
            name == NameText(Req)
        IN /\ result = Missing("Missing 'email' field for 'user'")
           /\ Len(calls) = 2 + k
           /\ calls[1] = [call |-> [op |-> "create-conversation-1", name |-> name],
                          outcome |-> "Ok"]
           /\ calls[2] = MemberInsert(before.email, name)
           /\ \A i \in 1..k : calls[2 + i] = MemberInsert(users[i].email.val, name)

\* The second of two users has no email: three writes were issued, the
\* last of them the membership of the first user, and the call failed.
C19_Witness ==
    /\ ReachedConversationWrites
    /\ Len(Req.users.val) = 2
    /\ FirstWithoutEmail(Req.users.val) = 2
    /\ InvalidRequest(result)
    /\ Len(calls) = 3
    /\ AllCallsOk
    /\ calls[3].call.email = Req.users.val[1].email.val

(***************************************************************************)
(* C20: only verify_users can change the session.  Every step that changes *)
(* the session's email or its is_authenticated flag is a run of            *)
(* verify_users; create_users, create_conversations, create_messages,      *)
(* read_conversations, read_messages and read_users leave both as they     *)
(* were, whatever they return.                                             *)
(***************************************************************************)
C20_OnlyVerifyChangesSession ==
    [][login' # login => (pc = "parsed" /\ handler' = "verify_users")]_vars

\* One of the other six handlers ran on an authenticated session, failed,
\* and the session is what it was.
C20_Witness ==
    /\ Done
    /\ handler \in (Creates \cup {"read_conversations", "read_messages", "read_users"})
    /\ before.is_authenticated
    /\ result.kind \in {"Err", "Panic"}
    /\ login = before

====
